---- MODULE Spec2Model ----
(***************************************************************************)
(* Model of the meal-planner pricing pipeline (add_pricing.py).            *)
(*                                                                         *)
(* Text is modelled character by character: an ingredient line is a        *)
(* string, and the three regular expressions of the source are modelled    *)
(* by operators that scan the string the way Python's re engine does       *)
(* (leftmost match, greedy runs, ordered alternation, \b word              *)
(* boundaries).                                                            *)
(*                                                                         *)
(* Numbers: Python floats are modelled as exact rationals <<n, d>> in      *)
(* lowest terms with d > 0.  Money is counted in cents, so the catalog     *)
(* price 4.50 is 450 and the default 1.50 is 150.                          *)
(***************************************************************************)
EXTENDS Integers, Sequences, FiniteSets, TLC

VARIABLES
    pc,          \* position of the modelled run
    ingredient,  \* estimate_ingredient_cost: its argument (the raw line)
    normalized,  \* estimate_ingredient_cost: local `normalized`
    quantity,    \* estimate_ingredient_cost: local `quantity` (a rational)
    unit,        \* estimate_ingredient_cost: local `unit`
    best_match,  \* estimate_ingredient_cost: local `best_match`
    cost,        \* estimate_ingredient_cost: the value returned (rational cents)
    recipe,      \* estimate_recipe_price: its argument
    total_cost,  \* estimate_recipe_price: local `total_cost` (rational cents)
    servings,    \* estimate_recipe_price: local `servings`
    price,       \* estimate_recipe_price: the value returned (cents, or None)
    catalog,        \* the dict the global INGREDIENT_PRICES names
    file,           \* add_pricing_to_recipes: the content of curated_recipes.json
    recipes,        \* add_pricing_to_recipes: local `recipes`
    pending,        \* add_pricing_to_recipes: the indexes the loop has yet to visit, in order
    priced_count,   \* add_pricing_to_recipes: local `priced_count`
    skipped_count,  \* add_pricing_to_recipes: local `skipped_count`
    estimated,      \* the indexes estimate_recipe_price was called for in this pass, in call order
    passes,         \* how many times add_pricing_to_recipes has been started
    op,             \* the classifier function called on `recipe`
    result          \* what that call returned or raised

costVars == <<ingredient, normalized, quantity, unit, best_match, cost>>
priceVars == <<recipe, total_cost, servings, price>>
passVars == <<file, recipes, pending, priced_count, skipped_count, estimated, passes>>
classifyVars == <<op, result>>

vars == <<pc, costVars, priceVars, catalog, passVars, classifyVars>>

\* Python values whose type varies are tagged records
None == [type |-> "NoneType"]                  \* None
Absent == [type |-> "absent"]                  \* a key the dict does not have
Number(v) == [type |-> "number", value |-> v]  \* an int or float
List(items) == [type |-> "list", items |-> items]
Str(s) == [type |-> "str", value |-> s]
Tuple2(key, base_price) == [type |-> "tuple", key |-> key, price |-> base_price]
Bool(b) == [type |-> "bool", value |-> b]
Raised(name) == [type |-> "exception", name |-> name]  \* an exception that leaves the call
NotCalled == [type |-> "not called"]           \* no call has returned yet

----------------------------------------------------------------------------
(* Characters and strings *)

At(s, i) == IF i >= 1 /\ i <= Len(s) THEN SubSeq(s, i, i) ELSE ""

DigitChars == {"0", "1", "2", "3", "4", "5", "6", "7", "8", "9"}

UpperAlphabet == "ABCDEFGHIJKLMNOPQRSTUVWXYZ"
LowerAlphabet == "abcdefghijklmnopqrstuvwxyz"

LowerChars == {At(LowerAlphabet, k) : k \in 1..26}
UpperChars == {At(UpperAlphabet, k) : k \in 1..26}

DigitOrSlashChars == DigitChars \cup {"/"}
SpaceChars == {" ", "\t", "\n"}
WordChars == DigitChars \cup LowerChars \cup UpperChars \cup {"_"}

\* \d
IsDigit(c) == c \in DigitChars
\* [\/\d]
IsDigitOrSlash(c) == c \in DigitOrSlashChars
\* \s
IsSpace(c) == c \in SpaceChars
\* \w
IsWordChar(c) == c \in WordChars

\* str.lower() on one character
LowerChar(c) ==
    IF c \in UpperChars
    THEN At(LowerAlphabet, CHOOSE k \in 1..26 : At(UpperAlphabet, k) = c)
    ELSE c

RECURSIVE LowerFrom(_, _)
LowerFrom(s, i) ==
    IF i > Len(s) THEN "" ELSE LowerChar(At(s, i)) \o LowerFrom(s, i + 1)

\* str.lower()
Lower(s) == LowerFrom(s, 1)

\* s[i-1:].startswith(w), positions from 1
StartsWithAt(s, i, w) ==
    /\ i + Len(w) - 1 <= Len(s)
    /\ SubSeq(s, i, i + Len(w) - 1) = w

\* `w in s`
Contains(s, w) == \E i \in 1..(Len(s) - Len(w) + 1) : StartsWithAt(s, i, w)

\* \b between the characters at i-1 and i
BoundaryAt(s, i) == IsWordChar(At(s, i - 1)) # IsWordChar(At(s, i))

\* end of the greedy run \d+[\/\d]* or [\/\d]* that starts at i: the first
\* position from i on that holds no digit and no slash
RECURSIVE SkipDigitsSlashes(_, _)
SkipDigitsSlashes(s, i) ==
    IF i <= Len(s) /\ IsDigitOrSlash(At(s, i)) THEN SkipDigitsSlashes(s, i + 1) ELSE i

\* end of the greedy run \s* that starts at i
RECURSIVE SkipSpaces(_, _)
SkipSpaces(s, i) ==
    IF i <= Len(s) /\ IsSpace(At(s, i)) THEN SkipSpaces(s, i + 1) ELSE i

\* An ordered alternation (a|b|...) tried at position i: the index of the
\* first alternative that matches there (and, when wordEnd, is followed by
\* \b), or 0 when none does.
FirstAlternative(s, i, alts, wordEnd) ==
    LET ok(k) == /\ StartsWithAt(s, i, alts[k])
                 /\ (wordEnd => BoundaryAt(s, i + Len(alts[k])))
        hits == {k \in 1..Len(alts) : ok(k)}
    IN  IF hits = {} THEN 0 ELSE CHOOSE k \in hits : \A j \in hits : k <= j

\* str.split(): the maximal runs of non-whitespace, in order
RECURSIVE SkipNonSpaces(_, _)
SkipNonSpaces(s, i) ==
    IF i <= Len(s) /\ ~IsSpace(At(s, i)) THEN SkipNonSpaces(s, i + 1) ELSE i

RECURSIVE SplitFrom(_, _)
SplitFrom(s, i) ==
    LET b == SkipSpaces(s, i)
        e == SkipNonSpaces(s, b)
    IN  IF b > Len(s) THEN <<>> ELSE <<SubSeq(s, b, e - 1)>> \o SplitFrom(s, e)

Split(s) == SplitFrom(s, 1)

\* ' '.join(words)
RECURSIVE Join(_)
Join(words) ==
    IF words = <<>> THEN ""
    ELSE IF Len(words) = 1 THEN words[1]
    ELSE words[1] \o " " \o Join(Tail(words))

\* str.strip()
RECURSIVE SkipSpacesBack(_, _)
SkipSpacesBack(s, i) ==
    IF i >= 1 /\ IsSpace(At(s, i)) THEN SkipSpacesBack(s, i - 1) ELSE i

Strip(s) ==
    LET b == SkipSpaces(s, 1)
        e == SkipSpacesBack(s, Len(s))
    IN  IF b > e THEN "" ELSE SubSeq(s, b, e)

\* str.split('/'): the pieces between the slashes, empty pieces included
RECURSIVE SplitSlashFrom(_, _, _)
SplitSlashFrom(s, start, i) ==
    IF i > Len(s) THEN <<SubSeq(s, start, Len(s))>>
    ELSE IF At(s, i) = "/"
         THEN <<SubSeq(s, start, i - 1)>> \o SplitSlashFrom(s, i + 1, i + 1)
         ELSE SplitSlashFrom(s, start, i + 1)

SplitSlash(s) == SplitSlashFrom(s, 1, 1)

----------------------------------------------------------------------------
(* Numbers *)

RECURSIVE GCD(_, _)
GCD(a, b) == IF b = 0 THEN a ELSE GCD(b, a % b)

Abs(n) == IF n < 0 THEN -n ELSE n

\* the rational n/d (d # 0) in lowest terms with a positive denominator
Rat(n, d) ==
    LET g == GCD(Abs(n), Abs(d))
        sgn == IF d < 0 THEN -1 ELSE 1
    IN  <<sgn * (n \div g), sgn * (d \div g)>>

RInt(n) == <<n, 1>>
RAdd(x, y) == Rat(x[1] * y[2] + y[1] * x[2], x[2] * y[2])
RMul(x, y) == Rat(x[1] * y[1], x[2] * y[2])
RDiv(x, y) == Rat(x[1] * y[2], x[2] * y[1])
RLess(x, y) == x[1] * y[2] < y[1] * x[2]

DigitValue(c) == CHOOSE v \in 0..9 : At("0123456789", v + 1) = c

AllDigits(s) == Len(s) > 0 /\ \A i \in 1..Len(s) : IsDigit(At(s, i))

RECURSIVE DigitsValue(_, _)
DigitsValue(s, n) ==
    IF n = 0 THEN 0 ELSE 10 * DigitsValue(s, n - 1) + DigitValue(At(s, n))

ValueError == "ValueError"

\* float(s) for the strings the quantity pattern can capture (digits and
\* slashes): the number when s is all digits, ValueError otherwise
Float(s) == IF AllDigits(s) THEN RInt(DigitsValue(s, Len(s))) ELSE ValueError

----------------------------------------------------------------------------
(* normalize_ingredient *)

\* the unit alternation of the pattern in normalize_ingredient, in order
NormalizeUnits ==
    <<"cup", "tbsp", "tsp", "oz", "lb", "pound", "ounce", "gram", "kg", "ml",
      "liter", "piece", "pieces", "clove", "cloves", "can", "cans", "bunch",
      "bunches", "head", "heads", "package", "packages">>

\* the alternation of the descriptor pattern, in order
Descriptors ==
    <<"fresh", "dried", "ground", "chopped", "diced", "sliced", "minced",
      "whole", "boneless", "skinless", "large", "small", "medium", "extra",
      "virgin", "organic">>

\* \b\d+[\/\d]*\s*(cup|...|packages)\b tried at position p: the position
\* after the match, or 0 when the pattern does not match at p.  The greedy
\* runs never help by giving characters back, since no unit word starts
\* with a digit, a slash or whitespace.
MeasureMatchEnd(s, p) ==
    IF IsDigit(At(s, p)) /\ BoundaryAt(s, p)
    THEN LET b == SkipSpaces(s, SkipDigitsSlashes(s, p))
             k == FirstAlternative(s, b, NormalizeUnits, TRUE)
         IN  IF k = 0 THEN 0 ELSE b + Len(NormalizeUnits[k])
    ELSE 0

\* \b(fresh|...|organic)\b tried at position p
DescriptorMatchEnd(s, p) ==
    IF BoundaryAt(s, p)
    THEN LET k == FirstAlternative(s, p, Descriptors, TRUE)
         IN  IF k = 0 THEN 0 ELSE p + Len(Descriptors[k])
    ELSE 0

\* re.sub(pattern, '', s): the leftmost non-overlapping matches removed; the
\* scan goes on in the original string after each match
RECURSIVE RemoveMeasures(_, _)
RemoveMeasures(s, p) ==
    IF p > Len(s) THEN ""
    ELSE LET e == MeasureMatchEnd(s, p)
         IN  IF e > 0 THEN RemoveMeasures(s, e)
             ELSE At(s, p) \o RemoveMeasures(s, p + 1)

RECURSIVE RemoveDescriptors(_, _)
RemoveDescriptors(s, p) ==
    IF p > Len(s) THEN ""
    ELSE LET e == DescriptorMatchEnd(s, p)
         IN  IF e > 0 THEN RemoveDescriptors(s, e)
             ELSE At(s, p) \o RemoveDescriptors(s, p + 1)

normalize_ingredient(line) ==
    LET text1 == Lower(line)
        text2 == RemoveMeasures(text1, 1)
        text3 == RemoveDescriptors(text2, 1)
        text4 == Join(Split(text3))
    IN  Strip(text4)

----------------------------------------------------------------------------
(* extract_quantity *)

\* the unit alternation of the pattern in extract_quantity, in order
ExtractUnits ==
    <<"cup", "cups", "tbsp", "tsp", "oz", "lb", "pound", "pounds", "ounce",
      "ounces", "gram", "grams", "kg", "ml", "liter", "piece", "pieces",
      "clove", "cloves", "can", "cans", "bunch", "bunches", "head", "heads",
      "package", "packages">>

\* re.search: the leftmost position where (\d+[\/\d]*)\s*(...)? matches is
\* the first digit of the string; 0 when there is none
RECURSIVE FirstDigit(_, _)
FirstDigit(s, i) ==
    IF i > Len(s) THEN 0
    ELSE IF IsDigit(At(s, i)) THEN i ELSE FirstDigit(s, i + 1)

\* match.group(1) and match.group(2) or '' of the match that starts at p
QuantityMatch(s, p) ==
    LET a == SkipDigitsSlashes(s, p)
        b == SkipSpaces(s, a)
        k == FirstAlternative(s, b, ExtractUnits, FALSE)
    IN  [qty_str |-> SubSeq(s, p, a - 1),
         unit |-> IF k = 0 THEN "" ELSE ExtractUnits[k]]

One == RInt(1)

\* `whole if whole > 0 else 1.0`
WholeOrOne(whole) == IF whole[1] > 0 THEN whole ELSE One

\* the conversion of qty_str to a number (the "Convert fraction to decimal"
\* block)
ParseQuantity(qty_str) ==
    IF Contains(qty_str, "/")
    THEN LET parts == Split(qty_str)
             two == Len(parts) = 2 /\ Float(parts[1]) # ValueError
             whole == IF two THEN Float(parts[1]) ELSE RInt(0)
             frac == IF two THEN parts[2] ELSE qty_str
             pieces == SplitSlash(frac)
         IN  IF Contains(frac, "/")
             THEN IF Len(pieces) # 2 THEN WholeOrOne(whole)  \* unpacking raises ValueError
                  ELSE IF Strip(pieces[1]) # "" /\ Strip(pieces[2]) # ""
                       THEN IF Float(pieces[1]) = ValueError \/ Float(pieces[2]) = ValueError
                            THEN WholeOrOne(whole)
                            ELSE IF Float(pieces[2])[1] # 0
                                 THEN RAdd(whole, RDiv(Float(pieces[1]), Float(pieces[2])))
                                 ELSE WholeOrOne(whole)
                       ELSE WholeOrOne(whole)
             ELSE WholeOrOne(whole)
    ELSE IF Float(qty_str) = ValueError THEN One ELSE Float(qty_str)

\* the "Convert to pounds for proteins, cups for others" block
ConvertUnit(qty, u) ==
    IF u \in {"lb", "pound", "pounds"} THEN <<qty, "lb">>
    ELSE IF u \in {"oz", "ounce", "ounces"} THEN <<RDiv(qty, RInt(16)), "lb">>
    ELSE IF u \in {"cup", "cups"} THEN <<qty, "cup">>
    ELSE IF u \in {"tbsp", "tablespoon", "tablespoons"} THEN <<RDiv(qty, RInt(16)), "cup">>
    ELSE IF u \in {"tsp", "teaspoon", "teaspoons"} THEN <<RDiv(qty, RInt(48)), "cup">>
    ELSE <<qty, "count">>

extract_quantity(line) ==
    LET s == Lower(line)
        p == FirstDigit(s, 1)
    IN  IF p > 0
        THEN LET m == QuantityMatch(s, p)
             IN  ConvertUnit(ParseQuantity(m.qty_str), m.unit)
        ELSE <<One, "count">>

----------------------------------------------------------------------------
(* estimate_ingredient_cost *)

\* the catalog, in the order the dict literal gives its keys (the order
\* .items() iterates in); prices in cents
INGREDIENT_PRICES ==
    <<[key |-> "chicken", price |-> 450], [key |-> "chicken breast", price |-> 500],
      [key |-> "chicken thigh", price |-> 350], [key |-> "beef", price |-> 800],
      [key |-> "ground beef", price |-> 600], [key |-> "steak", price |-> 1200],
      [key |-> "sirloin", price |-> 1000], [key |-> "ribeye", price |-> 1500],
      [key |-> "pork", price |-> 500], [key |-> "pork shoulder", price |-> 400],
      [key |-> "pork chop", price |-> 600], [key |-> "bacon", price |-> 700],
      [key |-> "ham", price |-> 500], [key |-> "sausage", price |-> 550],
      [key |-> "salmon", price |-> 1200], [key |-> "tuna", price |-> 800],
      [key |-> "fish", price |-> 800], [key |-> "cod", price |-> 700],
      [key |-> "halibut", price |-> 1500], [key |-> "tilapia", price |-> 500],
      [key |-> "shrimp", price |-> 1000], [key |-> "crab", price |-> 1500],
      [key |-> "lobster", price |-> 2000], [key |-> "scallop", price |-> 1800],
      [key |-> "turkey", price |-> 400], [key |-> "lamb", price |-> 1000],
      [key |-> "egg", price |-> 25], [key |-> "eggs", price |-> 25],
      [key |-> "onion", price |-> 100], [key |-> "garlic", price |-> 50],
      [key |-> "carrot", price |-> 150], [key |-> "celery", price |-> 150],
      [key |-> "potato", price |-> 100], [key |-> "tomato", price |-> 200],
      [key |-> "bell pepper", price |-> 200], [key |-> "mushroom", price |-> 400],
      [key |-> "spinach", price |-> 300], [key |-> "lettuce", price |-> 200],
      [key |-> "broccoli", price |-> 250], [key |-> "cauliflower", price |-> 250],
      [key |-> "zucchini", price |-> 200], [key |-> "eggplant", price |-> 200],
      [key |-> "corn", price |-> 150], [key |-> "peas", price |-> 200],
      [key |-> "green bean", price |-> 300], [key |-> "asparagus", price |-> 400],
      [key |-> "avocado", price |-> 150], [key |-> "rice", price |-> 200],
      [key |-> "pasta", price |-> 200], [key |-> "noodle", price |-> 200],
      [key |-> "bread", price |-> 300], [key |-> "flour", price |-> 150],
      [key |-> "quinoa", price |-> 500], [key |-> "barley", price |-> 200],
      [key |-> "couscous", price |-> 300], [key |-> "milk", price |-> 350],
      [key |-> "cheese", price |-> 500], [key |-> "butter", price |-> 400],
      [key |-> "cream", price |-> 400], [key |-> "yogurt", price |-> 400],
      [key |-> "sour cream", price |-> 300], [key |-> "olive oil", price |-> 800],
      [key |-> "vegetable oil", price |-> 300], [key |-> "canola oil", price |-> 300],
      [key |-> "coconut oil", price |-> 600], [key |-> "salt", price |-> 50],
      [key |-> "pepper", price |-> 200], [key |-> "paprika", price |-> 300],
      [key |-> "cumin", price |-> 400], [key |-> "coriander", price |-> 400],
      [key |-> "turmeric", price |-> 400], [key |-> "cinnamon", price |-> 500],
      [key |-> "nutmeg", price |-> 600], [key |-> "oregano", price |-> 400],
      [key |-> "thyme", price |-> 400], [key |-> "rosemary", price |-> 400],
      [key |-> "basil", price |-> 400], [key |-> "parsley", price |-> 300],
      [key |-> "cilantro", price |-> 300], [key |-> "ginger", price |-> 400],
      [key |-> "bay leaf", price |-> 300], [key |-> "chicken broth", price |-> 250],
      [key |-> "beef broth", price |-> 250], [key |-> "vegetable broth", price |-> 250],
      [key |-> "stock", price |-> 250], [key |-> "wine", price |-> 800],
      [key |-> "vinegar", price |-> 300], [key |-> "soy sauce", price |-> 300],
      [key |-> "worcestershire", price |-> 400], [key |-> "mustard", price |-> 300],
      [key |-> "mayonnaise", price |-> 300], [key |-> "ketchup", price |-> 200],
      [key |-> "sugar", price |-> 200], [key |-> "honey", price |-> 600],
      [key |-> "lemon", price |-> 50], [key |-> "lime", price |-> 50],
      [key |-> "orange", price |-> 75]>>

\* the entries whose key passes `if key in normalized`, in catalog order:
\* the loop body does nothing for the others
MatchingEntries(name) ==
    SelectSeq(INGREDIENT_PRICES, LAMBDA entry : Contains(name, entry.key))

\* the loop `for key, price in INGREDIENT_PRICES.items()` over those
\* entries, from the k-th on, carrying [best_match, best_score]
RECURSIVE MatchLoop(_, _, _, _)
MatchLoop(name, entries, k, best) ==
    IF k > Len(entries) THEN best
    ELSE LET entry == entries[k]
             score == IF name # "" THEN Rat(Len(entry.key), Len(name)) ELSE RInt(0)
         IN  IF RLess(best.best_score, score)
             THEN MatchLoop(name, entries, k + 1,
                            [best_match |-> Tuple2(entry.key, entry.price),
                             best_score |-> score])
             ELSE MatchLoop(name, entries, k + 1, best)

\* BestMatch with the scoring left out: the first key found in the name wins
BestMatchFirstHit(name) ==
    IF MatchingEntries(name) = <<>> THEN None
    ELSE Tuple2(MatchingEntries(name)[1].key, MatchingEntries(name)[1].price)

\* the value of best_match after the loop
BestMatch(name) ==
    MatchLoop(name, MatchingEntries(name), 1,
              [best_match |-> None, best_score |-> RInt(0)]).best_match

\* the flat price of an ingredient no key matches: 1.50
DefaultCost == 150

Half == Rat(1, 2)

\* AdjustForQuantity with the cup-to-pound factor 0.5 left out
AdjustForQuantityNoHalf(qty, u, base_price) == RMul(qty, RInt(base_price))

\* the "Adjust for quantity" block
AdjustForQuantity(qty, u, base_price) ==
    IF u = "lb" THEN RMul(qty, RInt(base_price))
    ELSE IF u = "cup" THEN RMul(RMul(qty, RInt(base_price)), Half)
    ELSE RMul(qty, RInt(base_price))

\* estimate_ingredient_cost with the default price scaled by the quantity
estimate_ingredient_cost_scaled(line) ==
    LET name == normalize_ingredient(line)
        q == extract_quantity(line)
        m == BestMatch(name)
    IN  [normalized |-> name,
         quantity |-> q[1],
         unit |-> q[2],
         best_match |-> m,
         cost |-> IF m = None THEN RMul(q[1], RInt(150))
                  ELSE RMul(q[1], RInt(m.price))]

\* estimate_ingredient_cost with its locals: the value returned is .cost
estimate_ingredient_cost(line) ==
    LET name == normalize_ingredient(line)
        q == extract_quantity(line)
        m == BestMatch(name)
    IN  [normalized |-> name,
         quantity |-> q[1],
         unit |-> q[2],
         best_match |-> m,
         cost |-> IF m = None THEN RInt(DefaultCost)
                  ELSE AdjustForQuantity(q[1], q[2], m.price)]

----------------------------------------------------------------------------
(* estimate_recipe_price *)

\* recipe.get(field): None for a key the dict does not have
Get(r, field) == IF r[field] = Absent THEN None ELSE r[field]

\* Falsy with the empty list taken for true: `x is None` in place of `not x`
FalsyNoneOnly(x) == x = None

\* `not x` for the values the 'ingredients' field takes
Falsy(x) == x = None \/ (x.type = "list" /\ x.items = <<>>)

\* the loop `for ingredient in recipe['ingredients']`: total_cost after the
\* first n ingredients
RECURSIVE TotalCost(_, _)
TotalCost(items, n) ==
    IF n = 0 THEN RInt(0)
    ELSE RAdd(TotalCost(items, n - 1), estimate_ingredient_cost(items[n]).cost)

DefaultServings == 4
SoupServings == 6
AppetizerServings == 8
SaladServings == 4

\* Servings with the meal-type branches left out
ServingsAlwaysDefault(r) == DefaultServings

\* the "Estimate servings" block
Servings(r) ==
    IF Get(r, "meal_type") = Str("soup") THEN SoupServings
    ELSE IF Get(r, "meal_type") = Str("appetizer") THEN AppetizerServings
    ELSE IF Get(r, "meal_type") = Str("salad") THEN SaladServings
    ELSE DefaultServings

\* floor of a rational
RFloor(x) == x[1] \div x[2]

\* round(x, 2) for x in currency units, here round-to-integer of x in cents.
\* A value exactly halfway between two cents goes to the even one, as
\* Python rounds a float that holds the halfway value exactly.
Round2(x) ==
    LET f == RFloor(x)
        twice == RAdd(RMul(RInt(2), x), RInt(-2 * f))  \* 2 * (x - f), in 0..2
    IN  IF RLess(twice, RInt(1)) THEN f
        ELSE IF RLess(RInt(1), twice) THEN f + 1
        ELSE IF f % 2 = 0 THEN f ELSE f + 1

\* estimate_recipe_price with its locals: the value returned is .result
estimate_recipe_price(r) ==
    IF Falsy(Get(r, "ingredients"))
    THEN [total_cost |-> RInt(0), servings |-> 0, result |-> None]
    ELSE LET items == r.ingredients.items
             total == TotalCost(items, Len(items))
             n == Servings(r)
             price_per_serving == IF n > 0 THEN RDiv(total, RInt(n)) ELSE total
         IN  [total_cost |-> total,
              servings |-> n,
              result |-> Number(Round2(price_per_serving))]

----------------------------------------------------------------------------
(* Ingredient lines the model feeds to estimate_ingredient_cost *)

\* longest line, in words, of the generated lines
MaxTokens == 3
\* largest integer quantity of the generated "<q> <unit> butter" lines
MaxQty == 3

\* number tokens, unit words, descriptor words and other words
Tokens ==
    {"2", "1/2", "1.5",
     "cup", "cups",
     "fresh",
     "chicken", "breast", "egg", "ham"}

\* the unit words of the conversion block and of the two patterns, and two
\* words that are no unit
UnitWords ==
    {"lb", "pound", "pounds", "oz", "ounce", "ounces", "cup", "cups",
     "tbsp", "tablespoon", "tablespoons", "tsp", "teaspoon", "teaspoons",
     "gram", "grams", "kg", "ml", "liter", "piece", "pieces", "clove",
     "cloves", "can", "cans", "bunch", "bunches", "head", "heads",
     "package", "packages", "sticks", "pinches"}

QtyWord(q) == At("0123456789", q + 1)

TokenLines == {Join(t) : t \in UNION {[1..n -> Tokens] : n \in 0..MaxTokens}}

UnitLines ==
    {QtyWord(q) \o " " \o u \o " butter" : q \in 1..MaxQty, u \in UnitWords}
    \cup {QtyWord(q) \o " butter" : q \in 1..MaxQty}

ExampleLines ==
    {"2 1/2 cups chopped fresh spinach",
     "3 oz cream cheese",
     "2 tablespoons butter",
     "1 fresh cup sugar",
     "2 cups spinach",
     "2 eggs",
     "1 lb boneless chicken breast fillet",
     "xylophone extract",
     "1 1/2 Cups Milk",
     "3/4 tsp salt",
     "1/0 cup honey"}

IngredientLines == TokenLines \cup UnitLines \cup ExampleLines

----------------------------------------------------------------------------
(* The run of one estimate_ingredient_cost call *)

Zero == RInt(0)

\* the variables of the parts of the program a run does not enter
CostIdle ==
    /\ ingredient = ""
    /\ normalized = ""
    /\ quantity = Zero
    /\ unit = ""
    /\ best_match = None
    /\ cost = Zero

PriceIdle ==
    /\ recipe = None
    /\ total_cost = Zero
    /\ servings = 0
    /\ price = None

PassIdle ==
    /\ file = <<>>
    /\ recipes = <<>>
    /\ pending = <<>>
    /\ priced_count = 0
    /\ skipped_count = 0
    /\ estimated = <<>>
    /\ passes = 0

ClassifyIdle == op = "" /\ result = NotCalled

InitIngredient ==
    /\ pc = "ingredient"
    /\ ingredient \in IngredientLines
    /\ normalized = ""
    /\ quantity = Zero
    /\ unit = ""
    /\ best_match = None
    /\ cost = Zero
    /\ recipe = None
    /\ total_cost = Zero
    /\ servings = 0
    /\ price = None
    /\ catalog = INGREDIENT_PRICES
    /\ PassIdle
    /\ ClassifyIdle

EstimateIngredientCost ==
    /\ pc = "ingredient"
    /\ \E r \in {estimate_ingredient_cost(ingredient)} :
           /\ normalized' = r.normalized
           /\ quantity' = r.quantity
           /\ unit' = r.unit
           /\ best_match' = r.best_match
           /\ cost' = r.cost
    /\ pc' = "costed"
    /\ UNCHANGED <<ingredient, priceVars, catalog, passVars, classifyVars>>

NextIngredient == EstimateIngredientCost

SpecIngredient == InitIngredient /\ [][NextIngredient]_vars

----------------------------------------------------------------------------
(* The run of one estimate_recipe_price call *)

\* longest ingredient list of the generated recipes
MaxIngredients == 2

\* ingredient lines of the generated recipes
RecipeLines ==
    {"1 lb steak", "2 cups spinach", "3 oz cream cheese", "2 eggs",
     "xylophone extract"}

IngredientsValues ==
    {Absent, None}
    \cup {List(t) : t \in UNION {[1..n -> RecipeLines] : n \in 0..MaxIngredients}}

MealTypeValues ==
    {Absent, None, Str("soup"), Str("appetizer"), Str("salad"), Str("entree"),
     Str("breakfast")}

EstimatedPriceValues == {Absent, None, Number(0), Number(325)}

Recipes ==
    [ingredients : IngredientsValues,
     meal_type : MealTypeValues,
     estimated_price : EstimatedPriceValues]

Init ==
    /\ pc = "recipe"
    /\ recipe \in Recipes
    /\ price = None
    /\ total_cost = Zero
    /\ servings = 0
    /\ ingredient = ""
    /\ normalized = ""
    /\ quantity = Zero
    /\ unit = ""
    /\ best_match = None
    /\ cost = Zero
    /\ catalog = INGREDIENT_PRICES
    /\ PassIdle
    /\ ClassifyIdle

EstimateRecipePrice ==
    /\ pc = "recipe"
    /\ \E r \in {estimate_recipe_price(recipe)} :
           /\ price' = r.result
           /\ total_cost' = r.total_cost
           /\ servings' = r.servings
    /\ pc' = "priced"
    /\ UNCHANGED <<recipe, costVars, catalog, passVars, classifyVars>>

Next == EstimateRecipePrice

Spec == Init /\ [][Next]_vars

----------------------------------------------------------------------------
(* Properties of extract_quantity (checked under SpecIngredient) *)

Costed == pc = "costed"

\* C1: a line that starts with the mixed fraction "2 1/2" and a unit word
\* cup/cups (as in "2 1/2 cups chopped fresh spinach") gives magnitude
\* 2 + 1/2 = 5/2 and unit class cup.
C1_MixedFraction ==
    (Costed /\ StartsWithAt(Lower(ingredient), 1, "2 1/2 cup"))
        => (quantity = Rat(5, 2) /\ unit = "cup")

\* C2: a line that starts with the decimal "1.5" and a unit word cup/cups
\* gives magnitude 1.5 = 3/2 and unit class cup (not 1 with class count).
C2_Decimal ==
    (Costed /\ StartsWithAt(Lower(ingredient), 1, "1.5 cup"))
        => (quantity = Rat(3, 2) /\ unit = "cup")

\* the unit-class mapping as the specification states it, the class pound
\* being the code's 'lb'
SpecifiedQuantity(q, u) ==
    IF u \in {"lb", "pound", "pounds"} THEN <<Rat(q, 1), "lb">>
    ELSE IF u \in {"oz", "ounce", "ounces"} THEN <<Rat(q, 16), "lb">>
    ELSE IF u \in {"cup", "cups"} THEN <<Rat(q, 1), "cup">>
    ELSE IF u \in {"tbsp", "tablespoon", "tablespoons"} THEN <<Rat(q, 16), "cup">>
    ELSE IF u \in {"tsp", "teaspoon", "teaspoons"} THEN <<Rat(q, 48), "cup">>
    ELSE <<Rat(q, 1), "count">>

\* C3: for every integer quantity q and unit word u, the line "<q> <u> butter"
\* gives the magnitude and unit class of the specified mapping, and the line
\* "<q> butter" gives (q, count).
C3_UnitClasses ==
    Costed =>
        /\ \A q \in 1..MaxQty : \A u \in UnitWords :
               ingredient = QtyWord(q) \o " " \o u \o " butter"
                   => <<quantity, unit>> = SpecifiedQuantity(q, u)
        /\ \A q \in 1..MaxQty :
               ingredient = QtyWord(q) \o " butter"
                   => <<quantity, unit>> = <<Rat(q, 1), "count">>

----------------------------------------------------------------------------
(* Properties of normalize_ingredient (checked under SpecIngredient) *)

\* C4: normalizing the normalized name again gives the same name.
C4_Idempotent == Costed => normalize_ingredient(normalized) = normalized

HasDigit(s) == \E i \in 1..Len(s) : IsDigit(At(s, i))

\* C5: the normalized name holds no number and no unit word: no digit is
\* left in it, "2 cups spinach" becomes "spinach" and "2 eggs" becomes "eggs".
C5_NumbersAndUnitsRemoved ==
    Costed =>
        /\ ~HasDigit(normalized)
        /\ (ingredient = "2 cups spinach" => normalized = "spinach")
        /\ (ingredient = "2 eggs" => normalized = "eggs")

----------------------------------------------------------------------------
(* Properties of estimate_ingredient_cost (checked under SpecIngredient) *)

\* the catalog entries whose key is a substring of the name
KeysIn(name) ==
    {k \in 1..Len(INGREDIENT_PRICES) : Contains(name, INGREDIENT_PRICES[k].key)}

\* C6: the match is the longest catalog key that is a substring of the
\* normalized name, the first in catalog order among equally long ones, and
\* there is no match exactly when no key is a substring; "chicken breast" and
\* "chicken breast fillet" select "chicken breast", the empty name nothing.
C6_BestMatch ==
    Costed =>
        /\ IF KeysIn(normalized) = {} THEN best_match = None
           ELSE \E k \in KeysIn(normalized) :
                    /\ best_match = Tuple2(INGREDIENT_PRICES[k].key, INGREDIENT_PRICES[k].price)
                    /\ \A j \in KeysIn(normalized) :
                           \/ Len(INGREDIENT_PRICES[j].key) < Len(INGREDIENT_PRICES[k].key)
                           \/ /\ Len(INGREDIENT_PRICES[j].key) = Len(INGREDIENT_PRICES[k].key)
                              /\ k <= j
        /\ normalized \in {"chicken breast", "chicken breast fillet"}
               => best_match = Tuple2("chicken breast", 500)
        /\ normalized = "" => best_match = None

\* a line that normalizes to "chicken breast" has been matched with the
\* entry "chicken breast", not with "chicken"
C6_Witness ==
    /\ Costed
    /\ normalized = "chicken breast"
    /\ best_match = Tuple2("chicken breast", 500)

\* C7: a line whose normalized name contains no catalog key costs exactly
\* 1.50, whatever quantity and unit class were parsed from it.
C7_UnmatchedCost ==
    (Costed /\ KeysIn(normalized) = {}) => cost = RInt(150)

\* an unmatched line with a parsed quantity of 1/2 cup costs 1.50
C7_Witness ==
    /\ Costed
    /\ KeysIn(normalized) = {}
    /\ quantity = Rat(1, 2)
    /\ unit = "cup"
    /\ cost = RInt(150)

\* C8: a matched line costs magnitude * p for the classes pound and count and
\* magnitude * p * 0.5 for the class cup, p being the matched unit price; the
\* cost is never negative; the name and the quantity both come from the raw
\* line.
C8_MatchedCost ==
    (Costed /\ best_match # None) =>
        /\ unit \in {"lb", "cup", "count"}
        /\ unit \in {"lb", "count"}
               => cost[1] * quantity[2] = quantity[1] * best_match.price * cost[2]
        /\ unit = "cup"
               => 2 * cost[1] * quantity[2] = quantity[1] * best_match.price * cost[2]
        /\ cost[1] >= 0 /\ cost[2] > 0
        /\ normalized = normalize_ingredient(ingredient)
        /\ <<quantity, unit>> = extract_quantity(ingredient)

\* "1/2 cup chicken": half a cup of a 4.50 entry costs 1.125
C8_Witness ==
    /\ Costed
    /\ best_match = Tuple2("chicken", 450)
    /\ quantity = Rat(1, 2)
    /\ unit = "cup"
    /\ cost = Rat(225, 2)

----------------------------------------------------------------------------
(* Properties of estimate_recipe_price (checked under Spec) *)

Priced == pc = "priced"

NoIngredients(r) == r.ingredients \in {Absent, None, List(<<>>)}

\* C9: a recipe whose ingredient sequence is empty, absent or null gets no
\* price (None, not 0), and a recipe with at least one ingredient line gets a
\* number.
C9_NoIngredientsNoPrice ==
    Priced =>
        /\ NoIngredients(recipe) => price = None
        /\ ~NoIngredients(recipe) => price.type = "number"

\* a recipe with an empty ingredient list has been given no price
C9_Witness ==
    /\ Priced
    /\ recipe.ingredients = List(<<>>)
    /\ price = None

\* the sum of the costs of the ingredient lines
RECURSIVE SumOfCosts(_)
SumOfCosts(items) ==
    IF items = <<>> THEN RInt(0)
    ELSE RAdd(estimate_ingredient_cost(Head(items)).cost, SumOfCosts(Tail(items)))

----------------------------------------------------------------------------
(* add_pricing_to_recipes *)

\* most recipes in the generated recipe files
MaxRecipes == 2
\* most runs of add_pricing_to_recipes on the same file
MaxPasses == 2

\* the "Skip if already has pricing" test:
\* 'estimated_price' in recipe and recipe['estimated_price'] is not None
AlreadyPricedIfTruthy(r) ==
    /\ r.estimated_price # Absent
    /\ r.estimated_price # None
    /\ r.estimated_price.value # 0

AlreadyPricedIfKeyPresent(r) == r.estimated_price # Absent

AlreadyPriced(r) == r.estimated_price # Absent /\ r.estimated_price # None

\* recipe['estimated_price'] = estimated_price
SetEstimatedPriceUnlessNone(r, v) ==
    IF v = None THEN r ELSE [r EXCEPT !.estimated_price = v]

SetEstimatedPrice(r, v) == [r EXCEPT !.estimated_price = v]

\* `if estimated_price:` for a price that is None or a number
Truthy(v) == v # None /\ v.value # 0

\* the order in which `for i, recipe in enumerate(recipes)` visits a list
\* of n recipes
IndexOrder(n) == [k \in 1..n |-> k]

\* the recipes of the generated files
PassRecipes ==
    [title : {Str("Beef Stew")},
     ingredients : {List(<<>>), List(<<"1 lb steak">>)},
     meal_type : {Absent, Str("soup")},
     estimated_price : EstimatedPriceValues]

RecipeFiles == UNION {[1..n -> PassRecipes] : n \in 0..MaxRecipes}

InitPass ==
    /\ pc = "pass_start"
    /\ file \in RecipeFiles
    /\ recipes = <<>>
    /\ pending = <<>>
    /\ priced_count = 0
    /\ skipped_count = 0
    /\ estimated = <<>>
    /\ passes = 0
    /\ catalog = INGREDIENT_PRICES
    /\ CostIdle
    /\ PriceIdle
    /\ ClassifyIdle

\* json.load and the two counters set to 0
LoadRecipes ==
    /\ pc = "pass_start"
    /\ recipes' = file
    /\ pending' = IndexOrder(Len(file))
    /\ priced_count' = 0
    /\ skipped_count' = 0
    /\ estimated' = <<>>
    /\ passes' = passes + 1
    /\ pc' = "pass_loop"
    /\ UNCHANGED <<file, catalog, costVars, priceVars, classifyVars>>

\* one turn of the loop, the branch that ends in `continue`
SkipRecipe ==
    /\ pc = "pass_loop"
    /\ pending # <<>>
    /\ AlreadyPriced(recipes[Head(pending)])
    /\ skipped_count' = skipped_count + 1
    /\ pending' = Tail(pending)
    /\ UNCHANGED <<pc, file, recipes, priced_count, estimated, passes, catalog,
                   costVars, priceVars, classifyVars>>

\* one turn of the loop, the branch that calls estimate_recipe_price
PriceRecipe ==
    /\ pc = "pass_loop"
    /\ pending # <<>>
    /\ ~AlreadyPriced(recipes[Head(pending)])
    /\ \E estimated_price \in {estimate_recipe_price(recipes[Head(pending)]).result} :
           /\ recipes' = [recipes EXCEPT ![Head(pending)] =
                              SetEstimatedPrice(recipes[Head(pending)], estimated_price)]
           /\ priced_count' = IF Truthy(estimated_price) THEN priced_count + 1
                              ELSE priced_count
    /\ estimated' = Append(estimated, Head(pending))
    /\ pending' = Tail(pending)
    /\ UNCHANGED <<pc, file, skipped_count, passes, catalog,
                   costVars, priceVars, classifyVars>>

\* json.dump after the loop
SaveRecipes ==
    /\ pc = "pass_loop"
    /\ pending = <<>>
    /\ file' = recipes
    /\ pc' = "pass_done"
    /\ UNCHANGED <<recipes, pending, priced_count, skipped_count, estimated, passes,
                   catalog, costVars, priceVars, classifyVars>>

\* the script is run again on the file it wrote
RunAgain ==
    /\ pc = "pass_done"
    /\ passes < MaxPasses
    /\ pc' = "pass_start"
    /\ UNCHANGED <<passVars, catalog, costVars, priceVars, classifyVars>>

NextPass == LoadRecipes \/ SkipRecipe \/ PriceRecipe \/ SaveRecipes \/ RunAgain

SpecPass == InitPass /\ [][NextPass]_vars

\* the orders in which a loop could visit n recipes
Orders(n) == {o \in [1..n -> 1..n] : \A i, j \in 1..n : o[i] = o[j] => i = j}

\* LoadRecipes for a loop that visits the recipes in any order
LoadRecipesAnyOrder ==
    /\ pc = "pass_start"
    /\ recipes' = file
    /\ pending' \in Orders(Len(file))
    /\ priced_count' = 0
    /\ skipped_count' = 0
    /\ estimated' = <<>>
    /\ passes' = passes + 1
    /\ pc' = "pass_loop"
    /\ UNCHANGED <<file, catalog, costVars, priceVars, classifyVars>>

NextPassAnyOrder ==
    LoadRecipesAnyOrder \/ SkipRecipe \/ PriceRecipe \/ SaveRecipes \/ RunAgain

SpecPassAnyOrder == InitPass /\ [][NextPassAnyOrder]_vars

----------------------------------------------------------------------------
(* Properties of add_pricing_to_recipes (checked under SpecPass) *)

\* the indexes the loop has visited
Visited == {k \in 1..Len(recipes) : \A j \in 1..Len(pending) : pending[j] # k}

HasPrice(r) == r.estimated_price # Absent /\ r.estimated_price.type = "number"

\* estimate_recipe_price was called for the k-th recipe
Estimated(k) == \E j \in 1..Len(estimated) : estimated[j] = k

\* C11: a recipe that was loaded with a non-null estimated_price (0
\* included) keeps its value, is not passed to estimate_recipe_price and
\* adds one to skipped_count; a recipe loaded with no or a null
\* estimated_price is passed to estimate_recipe_price, gets the result and is
\* not counted as skipped.
C11_SkipIfPresent ==
    pc = "pass_loop" =>
        /\ \A k \in Visited :
               IF HasPrice(file[k])
               THEN recipes[k] = file[k] /\ ~Estimated(k)
               ELSE /\ Estimated(k)
                    /\ recipes[k].estimated_price = estimate_recipe_price(file[k]).result
        /\ skipped_count = Cardinality({k \in Visited : HasPrice(file[k])})

\* a recipe priced 0 has been skipped, and one with a null price recomputed
C11_Witness ==
    /\ pc = "pass_loop"
    /\ pending = <<>>
    /\ Len(file) = 2
    /\ file[1].estimated_price = Number(0)
    /\ recipes[1].estimated_price = Number(0)
    /\ file[2].estimated_price = None
    /\ recipes[2].estimated_price = Number(200)
    /\ skipped_count = 1
    /\ estimated = <<2>>

\* the recipe a pass makes of r
Annotated(r) ==
    IF HasPrice(r) THEN r
    ELSE [r EXCEPT !.estimated_price = estimate_recipe_price(r).result]

\* C16 (checked under SpecPassAnyOrder): whatever the order in which a pass
\* visits the recipes, when its loop ends every recipe is what the pass makes
\* of that recipe alone; a second or later pass changes nothing: the recipes
\* with a price are skipped and counted, the others had a null price and get
\* a null price again.
C16_IdempotentAnyOrder ==
    (pc = "pass_loop" /\ pending = <<>>) =>
        /\ recipes = [k \in 1..Len(file) |-> Annotated(file[k])]
        /\ passes >= 2 =>
               /\ recipes = file
               /\ skipped_count = Cardinality({k \in 1..Len(file) : HasPrice(file[k])})
               /\ \A k \in 1..Len(file) :
                      ~HasPrice(file[k]) =>
                          /\ Estimated(k)
                          /\ file[k].estimated_price = None
                          /\ recipes[k].estimated_price = None

\* a second pass in the reverse order has recomputed two null prices to null
C16_Witness ==
    /\ pc = "pass_loop"
    /\ pending = <<>>
    /\ passes = 2
    /\ estimated = <<2, 1>>
    /\ Len(file) = 2
    /\ recipes = file
    /\ file[1].estimated_price = None
    /\ file[2].estimated_price = None

OtherFields == {"title", "ingredients", "meal_type"}

\* as many recipes, each with the fields of its predecessor but estimated_price
SameButPrice(before, after) ==
    /\ Len(after) = Len(before)
    /\ \A k \in 1..Len(before) : \A f \in OtherFields : after[k][f] = before[k][f]

\* C17: no step changes INGREDIENT_PRICES; the file a pass writes has the
\* recipes of the file it read, as many and in the same order, with every
\* field but estimated_price unchanged, and each of them has the key
\* estimated_price.
C17_OnlyPriceChanges ==
    [][/\ catalog' = catalog
       /\ SameButPrice(file, file')
       /\ pc' = "pass_done" =>
              \A k \in 1..Len(file') : file'[k].estimated_price # Absent]_vars

\* two passes have run: a soup of steak got the price 2.00, a recipe without
\* ingredients the price null
C17_Witness ==
    /\ pc = "pass_done"
    /\ passes = 2
    /\ Len(file) = 2
    /\ file[1].ingredients = List(<<"1 lb steak">>)
    /\ file[1].meal_type = Str("soup")
    /\ file[1].estimated_price = Number(200)
    /\ file[2].ingredients = List(<<>>)
    /\ file[2].estimated_price = None

----------------------------------------------------------------------------
(* curate_recipes.py: the classifier functions *)

\* recipe.get(field, default)
GetOr(r, field, default) == IF r[field] = Absent THEN default ELSE r[field]

\* [c.lower() for c in categories]
LowerAll(words) == [k \in 1..Len(words) |-> Lower(words[k])]

\* `k in cats_lower` for a list
InList(k, words) == \E j \in 1..Len(words) : words[j] = k

\* cats_lower = [c.lower() for c in categories] if categories else []
CatsLower(r) ==
    LET categories == GetOr(r, "categories", List(<<>>))
    IN  IF Falsy(categories) THEN <<>> ELSE LowerAll(categories.items)

PROTEIN_SOURCES ==
    <<[source |-> "chicken", keywords |-> <<"chicken", "poultry">>],
      [source |-> "beef",
       keywords |-> <<"beef", "steak", "ground beef", "chuck", "sirloin", "ribeye",
                      "brisket">>],
      [source |-> "pork",
       keywords |-> <<"pork", "bacon", "ham", "sausage", "prosciutto">>],
      [source |-> "seafood",
       keywords |-> <<"fish", "salmon", "tuna", "shrimp", "cod", "halibut", "tilapia",
                      "mahi", "trout", "sea bass", "crab", "lobster", "scallop">>],
      [source |-> "turkey", keywords |-> <<"turkey">>],
      [source |-> "lamb", keywords |-> <<"lamb">>],
      [source |-> "eggs",
       keywords |-> <<"egg", "eggs", "frittata", "omelet", "omelette">>]>>

EXCLUDE_CATEGORIES ==
    <<"dessert", "cake", "cookie", "pie", "chocolate", "candy", "brownie",
      "cocktail", "drink", "beverage", "smoothie", "juice",
      "bread", "muffin", "pancake", "waffle">>

\* the loop over PROTEIN_SOURCES.items() from the n-th group on
RECURSIVE FirstSource(_, _)
FirstSource(all_text, n) ==
    IF n > Len(PROTEIN_SOURCES) THEN "other"
    ELSE IF \E j \in 1..Len(PROTEIN_SOURCES[n].keywords) :
                Contains(all_text, PROTEIN_SOURCES[n].keywords[j])
         THEN PROTEIN_SOURCES[n].source
         ELSE FirstSource(all_text, n + 1)

detect_protein_source(r) ==
    LET title == GetOr(r, "title", Str(""))
    IN  IF title = None THEN Raised("AttributeError")
        ELSE LET title_lower == Lower(title.value)
                 cats_lower == CatsLower(r)
                 ingredients == GetOr(r, "ingredients", List(<<>>))
                 ings_lower == IF Falsy(ingredients) THEN ""
                               ELSE Lower(Join(ingredients.items))
                 all_text == title_lower \o " " \o Join(cats_lower) \o " " \o ings_lower
             IN  Str(FirstSource(all_text, 1))

should_exclude(r) ==
    LET categories == GetOr(r, "categories", List(<<>>))
    IN  IF Falsy(categories) THEN Bool(FALSE)
        ELSE LET cats_lower == LowerAll(categories.items)
                 title == GetOr(r, "title", Str(""))
             IN  IF title = None THEN Raised("AttributeError")
                 ELSE LET title_lower == Lower(title.value)
                      IN  Bool(\E j \in 1..Len(EXCLUDE_CATEGORIES) :
                                   \/ InList(EXCLUDE_CATEGORIES[j], cats_lower)
                                   \/ Contains(title_lower, EXCLUDE_CATEGORIES[j]))

\* the checks of get_meal_type with soup and salad in the other order
MealRulesSaladFirst ==
    <<[keys |-> <<"breakfast", "brunch", "egg">>, in_title |-> TRUE, meal |-> "breakfast"],
      [keys |-> <<"salad">>, in_title |-> FALSE, meal |-> "salad"],
      [keys |-> <<"soup", "stew", "chili">>, in_title |-> FALSE, meal |-> "soup"],
      [keys |-> <<"appetizer", "starter">>, in_title |-> FALSE, meal |-> "appetizer"]>>

\* the four `if any(...)` checks of get_meal_type, in order
MealRules ==
    <<[keys |-> <<"breakfast", "brunch", "egg">>, in_title |-> TRUE, meal |-> "breakfast"],
      [keys |-> <<"soup", "stew", "chili">>, in_title |-> FALSE, meal |-> "soup"],
      [keys |-> <<"salad">>, in_title |-> FALSE, meal |-> "salad"],
      [keys |-> <<"appetizer", "starter">>, in_title |-> FALSE, meal |-> "appetizer"]>>

\* any(k in cats_lower [or k in title_lower] for k in keys)
RuleMatches(rule, cats_lower, title_lower) ==
    \E j \in 1..Len(rule.keys) :
        \/ InList(rule.keys[j], cats_lower)
        \/ rule.in_title /\ Contains(title_lower, rule.keys[j])

RECURSIVE FirstMeal(_, _, _)
FirstMeal(cats_lower, title_lower, n) ==
    IF n > Len(MealRules) THEN "entree"
    ELSE IF RuleMatches(MealRules[n], cats_lower, title_lower) THEN MealRules[n].meal
         ELSE FirstMeal(cats_lower, title_lower, n + 1)

get_meal_type(r) ==
    LET cats_lower == CatsLower(r)
        title == GetOr(r, "title", Str(""))
    IN  IF title = None THEN Raised("AttributeError")
        ELSE Str(FirstMeal(cats_lower, Lower(title.value), 1))

EasyIngredients == 6
EasySteps == 4
MediumIngredients == 10
MediumSteps == 7

\* the thresholds with < for <=
DifficultyStrict(num_ingredients, num_steps) ==
    IF num_ingredients < EasyIngredients /\ num_steps < EasySteps THEN Str("easy")
    ELSE IF num_ingredients < MediumIngredients /\ num_steps < MediumSteps
         THEN Str("medium")
         ELSE Str("involved")

Difficulty(num_ingredients, num_steps) ==
    IF num_ingredients <= EasyIngredients /\ num_steps <= EasySteps THEN Str("easy")
    ELSE IF num_ingredients <= MediumIngredients /\ num_steps <= MediumSteps
         THEN Str("medium")
         ELSE Str("involved")

\* len(None) raises TypeError
get_difficulty(r) ==
    LET ingredients == GetOr(r, "ingredients", List(<<>>))
        directions == GetOr(r, "directions", List(<<>>))
    IN  IF ingredients = None \/ directions = None THEN Raised("TypeError")
        ELSE Difficulty(Len(ingredients.items), Len(directions.items))

\* most categories of a generated recipe
MaxCategories == 3
\* most ingredients and most steps of a recipe generated for get_difficulty
MaxIngredientCount == 11
MaxStepCount == 8

TitleValues ==
    {Absent, None, Str("Eggplant Soup"), Str("Chocolate Cake"), Str("Garden Plate")}

CategoryWords == {"Soup", "Salad", "Brunch"}

CategoriesValues ==
    {Absent, None, List(<<"Dessert">>)}
    \cup {List(t) : t \in UNION {[1..n -> CategoryWords] : n \in 0..MaxCategories}}

\* records as the recipe dataset has them: every field may be missing or null
MessyRecipes ==
    [title : TitleValues,
     categories : CategoriesValues,
     ingredients : {Absent, None, List(<<>>), List(<<"2 eggs">>)},
     directions : {Absent, None, List(<<"Mix.">>)},
     rating : {Absent, None, Number(4)},
     meal_type : {Absent},
     estimated_price : {Absent}]

\* a list of n copies of one line
Copies(line, n) == [k \in 1..n |-> line]

\* recipes with every pair of ingredient count and step count
CountedRecipes ==
    [title : {Str("Garden Plate")},
     categories : {List(<<"Dinner">>)},
     ingredients : {List(Copies("1 cup flour", n)) : n \in 0..MaxIngredientCount},
     directions : {List(Copies("Mix.", n)) : n \in 0..MaxStepCount},
     rating : {Number(4)},
     meal_type : {Absent},
     estimated_price : {Absent}]

InitClassify ==
    /\ pc = "recipe"
    /\ recipe \in MessyRecipes
    /\ price = None
    /\ total_cost = Zero
    /\ servings = 0
    /\ CostIdle
    /\ catalog = INGREDIENT_PRICES
    /\ PassIdle
    /\ ClassifyIdle

InitDifficulty ==
    /\ pc = "recipe"
    /\ recipe \in CountedRecipes
    /\ price = None
    /\ total_cost = Zero
    /\ servings = 0
    /\ CostIdle
    /\ catalog = INGREDIENT_PRICES
    /\ PassIdle
    /\ ClassifyIdle

DetectProteinSource ==
    /\ pc = "recipe"
    /\ op' = "detect_protein_source"
    /\ result' = detect_protein_source(recipe)
    /\ pc' = "classified"
    /\ UNCHANGED <<costVars, priceVars, catalog, passVars>>

ShouldExclude ==
    /\ pc = "recipe"
    /\ op' = "should_exclude"
    /\ result' = should_exclude(recipe)
    /\ pc' = "classified"
    /\ UNCHANGED <<costVars, priceVars, catalog, passVars>>

GetMealType ==
    /\ pc = "recipe"
    /\ op' = "get_meal_type"
    /\ result' = get_meal_type(recipe)
    /\ pc' = "classified"
    /\ UNCHANGED <<costVars, priceVars, catalog, passVars>>

GetDifficulty ==
    /\ pc = "recipe"
    /\ op' = "get_difficulty"
    /\ result' = get_difficulty(recipe)
    /\ pc' = "classified"
    /\ UNCHANGED <<costVars, priceVars, catalog, passVars>>

NextClassify ==
    \/ DetectProteinSource
    \/ ShouldExclude
    \/ GetMealType
    \/ GetDifficulty
    \/ EstimateRecipePrice

SpecClassify == InitClassify /\ [][NextClassify]_vars

NextDifficulty == GetDifficulty

SpecDifficulty == InitDifficulty /\ [][NextDifficulty]_vars

----------------------------------------------------------------------------
(* Properties of the classifier functions (checked under SpecClassify and,
   for get_difficulty, SpecDifficulty) *)

Called(name) == pc = "classified" /\ op = name

\* the categories of `recipe` include both "Soup" and "Salad"
SoupAndSalad ==
    /\ recipe.categories.type = "list"
    /\ InList("Soup", recipe.categories.items)
    /\ InList("Salad", recipe.categories.items)

\* C12 as stated: a recipe whose categories include both "Soup" and "Salad"
\* is classified "soup" whatever its title and other categories are (here
\* for the titles that are not null).
C12_SoupWhateverTitle ==
    (Called("get_meal_type") /\ SoupAndSalad /\ recipe.title # None)
        => result = Str("soup")

BreakfastWords == {"breakfast", "brunch", "egg"}

\* the breakfast check comes first: a category equal to, or a title
\* containing, one of breakfast/brunch/egg
BreakfastFirst ==
    \E k \in BreakfastWords :
        \/ \E j \in 1..Len(recipe.categories.items) :
               Lower(recipe.categories.items[j]) = k
        \/ recipe.title # Absent /\ Contains(Lower(recipe.title.value), k)

\* C12 amended: a recipe whose categories include both "Soup" and "Salad"
\* is never classified "salad": with a title that is a string or missing the
\* result is "breakfast" when the breakfast check matches (as for the title
\* "Eggplant Soup") and "soup" otherwise; with a null title the call ends in
\* AttributeError.
C12_SoupUnlessBreakfast ==
    (Called("get_meal_type") /\ SoupAndSalad) =>
        /\ result # Str("salad")
        /\ IF recipe.title = None THEN result = Raised("AttributeError")
           ELSE IF BreakfastFirst THEN result = Str("breakfast")
           ELSE result = Str("soup")

\* a recipe with the categories Salad, Soup and Salad has been classified "soup"
C12_Witness ==
    /\ Called("get_meal_type")
    /\ recipe.title = Str("Garden Plate")
    /\ recipe.categories = List(<<"Salad", "Soup", "Salad">>)
    /\ result = Str("soup")

\* an exclusion keyword equals a lower-cased category or occurs in the
\* lower-cased title
KeywordMatches ==
    \E j \in 1..Len(EXCLUDE_CATEGORIES) :
        \/ /\ recipe.categories.type = "list"
           /\ \E c \in 1..Len(recipe.categories.items) :
                  Lower(recipe.categories.items[c]) = EXCLUDE_CATEGORIES[j]
        \/ /\ recipe.title.type = "str"
           /\ Contains(Lower(recipe.title.value), EXCLUDE_CATEGORIES[j])

\* C13: should_exclude returns true whenever an exclusion keyword matches a
\* category or the title, also when the category list is empty or missing
\* (title "Chocolate Cake"); stated here for the titles that are not null.
C13_ExcludeOnTitle ==
    (Called("should_exclude") /\ KeywordMatches /\ recipe.title # None)
        => result = Bool(TRUE)

\* C14: get_difficulty returns "easy" exactly when there are at most 6
\* ingredients and at most 4 steps, "medium" exactly when it is not easy and
\* there are at most 10 ingredients and at most 7 steps, "involved"
\* otherwise; (6, 4) is easy and (7, 4) is medium.
C14_Thresholds ==
    Called("get_difficulty") =>
        LET num_ingredients == Len(recipe.ingredients.items)
            num_steps == Len(recipe.directions.items)
            easy == num_ingredients <= 6 /\ num_steps <= 4
            medium == ~easy /\ num_ingredients <= 10 /\ num_steps <= 7
        IN  /\ (result = Str("easy")) <=> easy
            /\ (result = Str("medium")) <=> medium
            /\ (result = Str("involved")) <=> (~easy /\ ~medium)
            /\ (num_ingredients = 6 /\ num_steps = 4) => result = Str("easy")
            /\ (num_ingredients = 7 /\ num_steps = 4) => result = Str("medium")

\* 7 ingredients and 4 steps have been rated "medium"
C14_Witness ==
    /\ Called("get_difficulty")
    /\ Len(recipe.ingredients.items) = 7
    /\ Len(recipe.directions.items) = 4
    /\ result = Str("medium")

\* C15: on a record in which title, ingredients, directions, categories and
\* rating are each missing, null or present, estimate_recipe_price,
\* detect_protein_source, get_meal_type, get_difficulty and should_exclude
\* each return a value and none ends in an exception.
C15_NeverRaises ==
    /\ pc = "classified" => result.type # "exception"
    /\ pc = "priced" => price.type \in {"NoneType", "number"}

====
